---- MODULE Spec2Model ----
(***************************************************************************)
(* Order lifecycle of the banana marketplace: the orders / reservations /  *)
(* reviews / notifications tables, the two scheduled sweep handlers        *)
(* (check-farm-confirm, auto-cancel-orders) and the page handlers that     *)
(* write an order's status (farm OrderDetail, farm FarmOrders in its       *)
(* orders-based and reservations-based versions, buyer UserOrders).        *)
(*                                                                         *)
(* Time is counted in hours since an arbitrary epoch; a DATE is the day    *)
(* number t \div 24.  Every awaited store call is one atomic step of the   *)
(* store; what a handler does between two awaits belongs to the step of    *)
(* the await before it.                                                    *)
(***************************************************************************)
EXTENDS Integers, Sequences, FiniteSets, Bags, TLC

(* ---------- bounds of the model ---------- *)

NumOrders == 2
MaxTicks == 1

(* ---------- program constants ---------- *)

StaleHours == 48
HarvestDays == 7

(* SQL NULL of a timestamp / date column *)
Null == -1
(* SQL NULL of a text column holding a fixed message *)
NullReason == "NULL"
(* SQL NULL of a free-text column; free text is a sequence of characters *)
NullText == <<"NULL">>

OrderIds == 1..NumOrders
(* the invocations of a sweep handler that can be in progress at once: the *)
(* scheduled one, and one that overlaps it                                 *)
Scheduled == "scheduled"
Overlapping == "overlapping"
RunIds == {Scheduled, Overlapping}

(* the clock at the start: 23:00 of day 9, so one tick changes the date *)
T0 == (10 * 24) - 1
Day(t) == t \div 24

Buyer == "buyer"
Farm == "farm"

StaleReason == "Farm did not confirm within 48 hours"
HarvestReason == "Auto-cancelled: Exceeded 7 days after harvest date"

(* ---------- text ---------- *)

RECURSIVE TrimLeft(_)
TrimLeft(s) == IF s # <<>> /\ Head(s) = " " THEN TrimLeft(Tail(s)) ELSE s

RECURSIVE TrimRight(_)
TrimRight(s) ==
  IF s # <<>> /\ s[Len(s)] = " " THEN TrimRight(SubSeq(s, 1, Len(s) - 1)) ELSE s

(* String.prototype.trim *)
Trim(s) == TrimRight(TrimLeft(s))

(* no order selected: the null of a page's selectedOrder / shippingId *)
NoOrder == 0

(* the buyer's browser tabs showing UserOrders *)
SessionIds == {"tab1", "tab2"}

(* the submitReview calls that can be awaiting the store at once *)
CallIds == {"call1", "call2"}

(* what the farm types into a tracking number field *)
TrackingInputs == {<<>>, <<" ">>, <<" ", "T">>}

(* what the farm types into the carrier field *)
CarrierInputs == {<<>>, <<" ">>, <<"K">>}

VARIABLES now, orders, products, notifications, runs, reviews, uo, calls,
          od, fo, reservations, rp, pd, dash, mp

vars == <<now, orders, products, notifications, runs, reviews, uo, calls,
          od, fo, reservations, rp, pd, dash, mp>>

sweepVars == <<now, orders, products, notifications, runs>>
buyerVars == <<reviews, uo, calls>>
farmVars == <<od, fo, reservations, rp>>
shopVars == <<pd, dash, mp>>

(* ---------- rows ---------- *)

(* a row of public.orders as INSERT leaves it: status defaults to pending, *)
(* every transition timestamp, the reason and the tracking number are NULL *)
NewOrder(o, created) ==
  [ user_id |-> Buyer, farm_id |-> Farm, product_id |-> o,
    status |-> "pending", tracking_number |-> NullText, carrier |-> NullText,
    created_at |-> created, confirmed_at |-> Null, shipped_at |-> Null,
    delivered_at |-> Null, cancelled_at |-> Null,
    cancellation_reason |-> NullReason ]

(* UPDATE ... SET upd: the columns named in upd are overwritten *)
ApplyUpdate(row, upd) ==
  [f \in DOMAIN row |-> IF f \in DOMAIN upd THEN upd[f] ELSE row[f]]

(* ---------- farm OrderDetail: the payload of updateStatus ---------- *)

(* `updates` without the timestamp of the delivered transition *)
UpdatesFor_NoDeliveredAt(newStatus, trackingNumber, t) ==
  CASE newStatus = "confirmed" ->
         [status |-> newStatus, confirmed_at |-> t]
    [] newStatus = "shipped" ->
         [status |-> newStatus, shipped_at |-> t,
          tracking_number |-> Trim(trackingNumber)]
    [] OTHER -> [status |-> newStatus]

(* `updates` as updateStatus builds it for newStatus at time t *)
UpdatesFor(newStatus, trackingNumber, t) ==
  CASE newStatus = "confirmed" ->
         [status |-> newStatus, confirmed_at |-> t]
    [] newStatus = "shipped" ->
         [status |-> newStatus, shipped_at |-> t,
          tracking_number |-> Trim(trackingNumber)]
    [] newStatus = "delivered" ->
         [status |-> newStatus, delivered_at |-> t]
    [] OTHER -> [status |-> newStatus]

(* ---------- the sweep handlers ---------- *)

(* twoDaysAgo: the clock minus 48 hours *)
StaleCutoff(t) == t - StaleHours

(* sevenDaysAgo.toISOString().split('T')[0]: the date seven days back *)
HarvestCutoff(t) == Day(t) - HarvestDays

(* the filter with .lte in place of .lt *)
StaleFilter_Inclusive(row, cutoff) ==
  row.status = "pending" /\ row.created_at <= cutoff

(* the filter without .eq('status', 'pending') *)
StaleFilter_AnyStatus(row, cutoff) == row.created_at < cutoff

(* the filter with .gt in place of .lt: the orders newer than the limit *)
StaleFilter_Newer(row, cutoff) ==
  row.status = "pending" /\ row.created_at > cutoff

(* .eq('status', 'pending').lt('created_at', twoDaysAgo) *)
StaleFilter(row, cutoff) ==
  row.status = "pending" /\ row.created_at < cutoff

(* the filter as the handler's comment words it: "still pending" *)
HarvestFilter_PendingOnly(row, prods, cutoffDate) ==
  /\ row.product_id \in DOMAIN prods
  /\ row.status = "pending"
  /\ prods[row.product_id].harvest_date < cutoffDate

(* products!inner, .in('status', [pending, confirmed]),                    *)
(* .lt('products.harvest_date', date)                                      *)
HarvestFilter(row, prods, cutoffDate) ==
  /\ row.product_id \in DOMAIN prods
  /\ row.status \in {"pending", "confirmed"}
  /\ prods[row.product_id].harvest_date < cutoffDate

(* select('id, user_id, farm_id') of check-farm-confirm *)
StaleSelect(tbl, cutoff) ==
  { [id |-> o, user_id |-> tbl[o].user_id, farm_id |-> tbl[o].farm_id] :
      o \in {x \in DOMAIN tbl : StaleFilter(tbl[x], cutoff)} }

(* select('id, user_id, products!inner (harvest_date)') of auto-cancel-orders *)
HarvestSelect(tbl, prods, cutoffDate) ==
  { [id |-> o, user_id |-> tbl[o].user_id,
     harvest_date |-> prods[tbl[o].product_id].harvest_date] :
      o \in {x \in DOMAIN tbl : HarvestFilter(tbl[x], prods, cutoffDate)} }

StaleCancel(t) ==
  [status |-> "cancelled", cancelled_at |-> t, cancellation_reason |-> StaleReason]

HarvestCancel(t) ==
  [status |-> "cancelled", cancelled_at |-> t, cancellation_reason |-> HarvestReason]

(* the second insert addressed to order.user_id, as the first is *)
StaleNotifications_BothToBuyer(row) ==
  SetToBag({[user_id |-> row.user_id, type |-> "order_cancelled",
             related_order_id |-> row.id]})
  (+) SetToBag({[user_id |-> row.user_id, type |-> "confirmation_missed",
                 related_order_id |-> row.id]})

(* the two inserts of check-farm-confirm for one cancelled order *)
StaleNotifications(row) ==
  SetToBag({[user_id |-> row.user_id, type |-> "order_cancelled",
             related_order_id |-> row.id]})
  (+) SetToBag({[user_id |-> row.farm_id, type |-> "confirmation_missed",
                 related_order_id |-> row.id]})

(* the one insert of auto-cancel-orders for one cancelled order *)
HarvestNotifications(row) ==
  SetToBag({[user_id |-> row.user_id, type |-> "order_cancelled",
             related_order_id |-> row.id]})

NoResponse ==
  [status |-> 0, body |-> "none", success |-> FALSE, count |-> 0, error |-> "none"]

(* { success: true, message: `Cancelled ${n} ...` }, status 200 by default *)
SuccessResponse(n) ==
  [status |-> 200, body |-> "success", success |-> TRUE, count |-> n,
   error |-> "none"]

(* new Response(null, { headers: corsHeaders }): no body, default status *)
PreflightResponse ==
  [status |-> 200, body |-> "null", success |-> FALSE, count |-> 0,
   error |-> "none"]

(* a body { error: msg } with status 500 *)
ErrorResponse(msg) ==
  [status |-> 500, body |-> "error", success |-> FALSE, count |-> 0,
   error |-> msg]

(* the message of the error the select returns *)
FetchMessage == "fetch failed"

(* what `throw fetchError` can throw: the error object of the store        *)
(* client, which is or is not an instance of Error                         *)
FetchErrors ==
  {[isError |-> b, message |-> FetchMessage] : b \in BOOLEAN}

(* the catch block: error instanceof Error ? error.message : 'Unknown error' *)
CatchResponse(thrown) ==
  ErrorResponse(IF thrown.isError THEN thrown.message ELSE "Unknown error")

(* the invocation after its select returned an error *)
FetchFailed(r, kind, thrown) ==
  [runs[r] EXCEPT !.pc = "done", !.kind = kind, !.at = now, !.pre = orders,
                  !.resp = CatchResponse(thrown)]

(* an invocation slot with no request in it.  at, pre, updated, failed and *)
(* inserted are history of the invocation: the clock and the orders table  *)
(* at its select, the orders whose update succeeded, those whose update    *)
(* failed, and the notifications it inserted                               *)
IdleRun ==
  [pc |-> "idle", kind |-> "none", method |-> "none", todo |-> {}, found |-> 0,
   resp |-> NoResponse, at |-> Null, pre |-> <<>>, updated |-> {}, failed |-> {},
   inserted |-> EmptyBag]

(* a request can be taken when invocation r is not in progress *)
CanStart(r) == runs[r].pc = "idle"

(* the request methods a handler is called with; the scheduler posts *)
Methods == {"OPTIONS", "POST", "GET"}

(* a preflight that goes on to the select instead of answering at once *)
Preflighted_RunsSweep(r, kind) ==
  [runs[r] EXCEPT !.pc = "loop", !.kind = kind, !.method = "OPTIONS",
                  !.todo = {[id |-> o, user_id |-> orders[o].user_id,
                             farm_id |-> orders[o].farm_id] :
                            o \in {i \in DOMAIN orders :
                                     orders[i].status = "pending"}},
                  !.at = now, !.pre = orders]

(* if (req.method === 'OPTIONS') return new Response(null, ...): answered  *)
(* before the client is created, nothing is read or written                *)
Preflighted(r, kind) ==
  [runs[r] EXCEPT !.pc = "done", !.kind = kind, !.method = "OPTIONS",
                  !.resp = PreflightResponse]

(* after the select: the loop starts, or with nothing selected the handler *)
(* answers at once                                                         *)
Selected(r, kind, rows) ==
  [runs[r] EXCEPT !.pc = IF rows = {} THEN "done" ELSE "loop",
                  !.kind = kind, !.todo = rows, !.found = Cardinality(rows),
                  !.resp = IF rows = {} THEN SuccessResponse(0) ELSE NoResponse,
                  !.at = now, !.pre = orders]

(* the pass with `throw updateError` in place of `continue`: the catch     *)
(* block answers and the rows left are not visited                         *)
Passed_ThrowOnError(r, row, ok, notes) ==
  LET rest == runs[r].todo \ {row}
  IN IF ok
     THEN [runs[r] EXCEPT !.todo = rest, !.inserted = @ (+) notes,
                          !.pc = IF rest = {} THEN "done" ELSE "loop",
                          !.resp = IF rest = {} THEN SuccessResponse(runs[r].found)
                                   ELSE NoResponse,
                          !.updated = @ \cup {row.id}]
     ELSE [runs[r] EXCEPT !.todo = {}, !.pc = "done",
                          !.resp = ErrorResponse("update failed"),
                          !.failed = @ \cup {row.id}]

(* after one pass of the for loop over `row`; after the last pass the      *)
(* handler answers with the number of rows the select found                *)
Passed(r, row, ok, notes) ==
  LET rest == runs[r].todo \ {row}
  IN [runs[r] EXCEPT !.todo = rest,
                     !.inserted = IF ok THEN @ (+) notes ELSE @,
                     !.pc = IF rest = {} THEN "done" ELSE "loop",
                     !.resp = IF rest = {} THEN SuccessResponse(runs[r].found)
                              ELSE NoResponse,
                     !.updated = IF ok THEN @ \cup {row.id} ELSE @,
                     !.failed = IF ok THEN @ ELSE @ \cup {row.id}]

(* check-farm-confirm, lines 13-35: the select; a fetch error is thrown to *)
(* the catch block                                                         *)
StaleRequest(r, method, ok) ==
  /\ CanStart(r)
  /\ IF method = "OPTIONS"
     THEN runs' = [runs EXCEPT ![r] = Preflighted(r, "stale")]
     ELSE IF ok
     THEN runs' = [runs EXCEPT ![r] =
                     [Selected(r, "stale", StaleSelect(orders, StaleCutoff(now)))
                        EXCEPT !.method = method]]
     ELSE \E thrown \in FetchErrors :
            runs' = [runs EXCEPT ![r] =
                       [FetchFailed(r, "stale", thrown) EXCEPT !.method = method]]
  /\ UNCHANGED <<now, orders, products, notifications>>
  /\ UNCHANGED <<buyerVars, farmVars>>
  /\ UNCHANGED shopVars

(* the scheduler's invocation of check-farm-confirm *)
StaleFetch(r, ok) == StaleRequest(r, "POST", ok)

(* the pass without `continue` after the update error: the notifications  *)
(* are inserted although the order was not cancelled                       *)
StaleRow_NoContinue(r, row, ok) ==
  /\ runs[r].pc = "loop" /\ runs[r].kind = "stale"
  /\ row \in runs[r].todo
  /\ IF ok
     THEN orders' = [orders EXCEPT ![row.id] = ApplyUpdate(@, StaleCancel(now))]
     ELSE UNCHANGED orders
  /\ notifications' = notifications (+) StaleNotifications(row)
  /\ runs' = [runs EXCEPT ![r] =
                [Passed(r, row, ok, StaleNotifications(row))
                   EXCEPT !.inserted = runs[r].inserted (+) StaleNotifications(row)]]
  /\ UNCHANGED <<now, products>>
  /\ UNCHANGED <<buyerVars, farmVars>>
  /\ UNCHANGED shopVars

(* check-farm-confirm, lines 38-72: one pass of the loop; on an update     *)
(* error the pass is skipped, else both notifications are inserted         *)
StaleRow(r, row, ok) ==
  /\ runs[r].pc = "loop" /\ runs[r].kind = "stale"
  /\ row \in runs[r].todo
  /\ IF ok
     THEN /\ orders' = [orders EXCEPT ![row.id] = ApplyUpdate(@, StaleCancel(now))]
          /\ notifications' = notifications (+) StaleNotifications(row)
     ELSE UNCHANGED <<orders, notifications>>
  /\ runs' = [runs EXCEPT ![r] = Passed(r, row, ok, StaleNotifications(row))]
  /\ UNCHANGED <<now, products>>
  /\ UNCHANGED <<buyerVars, farmVars>>
  /\ UNCHANGED shopVars

(* auto-cancel-orders, lines 13-40 *)
HarvestRequest(r, method, ok) ==
  /\ CanStart(r)
  /\ IF method = "OPTIONS"
     THEN runs' = [runs EXCEPT ![r] = Preflighted(r, "harvest")]
     ELSE IF ok
     THEN runs' = [runs EXCEPT ![r] =
                     [Selected(r, "harvest",
                               HarvestSelect(orders, products, HarvestCutoff(now)))
                        EXCEPT !.method = method]]
     ELSE \E thrown \in FetchErrors :
            runs' = [runs EXCEPT ![r] =
                       [FetchFailed(r, "harvest", thrown) EXCEPT !.method = method]]
  /\ UNCHANGED <<now, orders, products, notifications>>
  /\ UNCHANGED <<buyerVars, farmVars>>
  /\ UNCHANGED shopVars

(* the scheduler's invocation of auto-cancel-orders *)
HarvestFetch(r, ok) == HarvestRequest(r, "POST", ok)

(* auto-cancel-orders, lines 43-68 *)
HarvestRow(r, row, ok) ==
  /\ runs[r].pc = "loop" /\ runs[r].kind = "harvest"
  /\ row \in runs[r].todo
  /\ IF ok
     THEN /\ orders' = [orders EXCEPT ![row.id] = ApplyUpdate(@, HarvestCancel(now))]
          /\ notifications' = notifications (+) HarvestNotifications(row)
     ELSE UNCHANGED <<orders, notifications>>
  /\ runs' = [runs EXCEPT ![r] = Passed(r, row, ok, HarvestNotifications(row))]
  /\ UNCHANGED <<now, products>>
  /\ UNCHANGED <<buyerVars, farmVars>>
  /\ UNCHANGED shopVars

(* the response has been delivered: the next request can be taken *)
Respond(r) ==
  /\ runs[r].pc = "done"
  /\ runs' = [runs EXCEPT ![r] = IdleRun]
  /\ UNCHANGED <<now, orders, products, notifications>>
  /\ UNCHANGED <<buyerVars, farmVars>>
  /\ UNCHANGED shopVars

(* the clock advances by one hour *)
Tick ==
  /\ now < T0 + MaxTicks
  /\ now' = now + 1
  /\ UNCHANGED <<orders, products, notifications, runs>>
  /\ UNCHANGED <<buyerVars, farmVars>>
  /\ UNCHANGED shopVars

(* ---------- farm OrderDetail ---------- *)

(* no row / no request *)
NoRow == [status |-> "none"]

(* the page before loadOrder has set an order *)
NewDetail ==
  [id |-> NoOrder, order |-> NoRow, trackingNumber |-> <<>>, updating |-> FALSE,
   req |-> NoRow, toast |-> "none", session |-> "none", route |-> "detail"]

(* the columns of an order loadOrder selects, as far as the page uses them *)
DetailRow(row) ==
  [user_id |-> row.user_id, status |-> row.status,
   tracking_number |-> row.tracking_number, created_at |-> row.created_at,
   confirmed_at |-> row.confirmed_at, shipped_at |-> row.shipped_at,
   delivered_at |-> row.delivered_at]

(* data.tracking_number || "" *)
OrEmpty(text) == IF text = NullText THEN <<>> ELSE text

(* the users who can be logged in: the farm's user, the user of another    *)
(* farm, and the buyer, who has no farm profile                            *)
FarmUser == "farmer"
OtherFarmUser == "farmer2"
OtherFarm == "farm2"
NoFarm == "nofarm"
Visitors == {"none", FarmUser, OtherFarmUser, Buyer}

(* farm_profiles: select id where user_id = user, maybeSingle *)
ProfileOf(user) ==
  CASE user = FarmUser -> Farm
    [] user = OtherFarmUser -> OtherFarm
    [] OTHER -> NoFarm

(* the order query without .eq("farm_id", farm.id) *)
OrderQuery_ByIdOnly(tbl, o, farm) == o \in DOMAIN tbl

(* orders: .eq("id", id).eq("farm_id", farm.id).maybeSingle() finds a row *)
OrderQuery(tbl, o, farm) == o \in DOMAIN tbl /\ tbl[o].farm_id = farm

(* the page after loadOrder gave up and navigated to `route` *)
Left(session, route, toast) ==
  [NewDetail EXCEPT !.session = session, !.route = route, !.toast = toast]

(* loadOrder for the order of the route, in the session of the browser:    *)
(* without a session the page goes to the login, without a farm profile    *)
(* to the dashboard, on a store error or with no row for id and farm to    *)
(* the order list; else the order is set                                   *)
OD_LoadOrder(session, o, ok) ==
  /\ ~od.updating
  /\ od' = CASE session = "none" -> Left(session, "/auth/login", "none")
             [] session # "none" /\ ~ok -> Left(session, "/farm/orders", "error")
             [] session # "none" /\ ok /\ ProfileOf(session) = NoFarm
                  -> Left(session, "/dashboard", "error")
             [] session # "none" /\ ok /\ ProfileOf(session) # NoFarm
                  /\ ~OrderQuery(orders, o, ProfileOf(session))
                  -> Left(session, "/farm/orders", "error")
             [] OTHER ->
                  [NewDetail EXCEPT !.id = o, !.order = DetailRow(orders[o]),
                                    !.trackingNumber = OrEmpty(orders[o].tracking_number),
                                    !.session = session]
  /\ UNCHANGED <<fo, reservations, rp>>
  /\ UNCHANGED <<sweepVars, buyerVars>>
  /\ UNCHANGED shopVars

(* loadOrder in the session of the farm's user *)
OD_Load(o, ok) == OD_LoadOrder(FarmUser, o, ok)

(* onChange of the tracking number input, shown for a confirmed order *)
OD_SetTracking(t) ==
  /\ od.order.status = "confirmed"
  /\ od' = [od EXCEPT !.trackingNumber = t]
  /\ UNCHANGED <<fo, reservations, rp>>
  /\ UNCHANGED <<sweepVars, buyerVars>>
  /\ UNCHANGED shopVars

(* the Actions card with Mark as Delivered shown for a confirmed order too *)
Offered_DeliveredEarly(status) ==
  CASE status = "pending" -> {"confirmed"}
    [] status = "confirmed" -> {"shipped", "delivered"}
    [] status = "shipped" -> {"delivered"}
    [] OTHER -> {}

(* the Actions card: the one button offered for the status displayed *)
Offered(status) ==
  CASE status = "pending" -> {"confirmed"}
    [] status = "confirmed" -> {"shipped"}
    [] status = "shipped" -> {"delivered"}
    [] OTHER -> {}

(* updateStatus(newStatus) from its button, up to the await of the update: *)
(* without a tracking number the shipped transition ends with an error     *)
OD_UpdateStatus(newStatus) ==
  /\ od.order # NoRow /\ ~od.updating
  /\ newStatus \in Offered(od.order.status)
  /\ od' = IF newStatus = "shipped" /\ Trim(od.trackingNumber) = <<>>
           THEN [od EXCEPT !.toast = "error", !.updating = FALSE]
           ELSE [od EXCEPT !.updating = TRUE,
                           !.req = UpdatesFor(newStatus, od.trackingNumber, now)]
  /\ UNCHANGED <<fo, reservations, rp>>
  /\ UNCHANGED <<sweepVars, buyerVars>>
  /\ UNCHANGED shopVars

(* updateStatus with setOrder ahead of the test of the store's answer *)
OD_Updated_OverlayFirst(ok) ==
  /\ od.updating
  /\ orders' = IF ok THEN [orders EXCEPT ![od.id] = ApplyUpdate(@, od.req)]
               ELSE orders
  /\ od' = [od EXCEPT !.order = ApplyUpdate(@, od.req),
                      !.toast = IF ok THEN "success" ELSE "error",
                      !.updating = FALSE, !.req = NoRow]
  /\ UNCHANGED <<fo, reservations, rp>>
  /\ UNCHANGED <<now, products, notifications, runs, buyerVars>>
  /\ UNCHANGED shopVars

(* updateStatus after the await: UPDATE orders SET updates WHERE id = id;  *)
(* on success the local order is overlaid with the updates                 *)
OD_Updated(ok) ==
  /\ od.updating
  /\ IF ok
     THEN /\ orders' = [orders EXCEPT ![od.id] = ApplyUpdate(@, od.req)]
          /\ od' = [od EXCEPT !.order = ApplyUpdate(@, od.req), !.toast = "success",
                              !.updating = FALSE, !.req = NoRow]
     ELSE /\ od' = [od EXCEPT !.toast = "error", !.updating = FALSE, !.req = NoRow]
          /\ UNCHANGED orders
  /\ UNCHANGED <<fo, reservations, rp>>
  /\ UNCHANGED <<now, products, notifications, runs, buyerVars>>
  /\ UNCHANGED shopVars

(* ---------- farm FarmOrders over the orders table ---------- *)

NewFarmOrders ==
  [list |-> <<>>, shippingId |-> NoOrder, tracking |-> <<>>, carrier |-> <<>>,
   toast |-> "none"]

(* the orders query of loadData: the status of every order the farm may    *)
(* see; a failed query leaves the list empty                               *)
FarmList(tbl, ok) ==
  IF ok THEN [o \in {x \in DOMAIN tbl : tbl[x].farm_id = Farm} |-> tbl[o].status]
  ELSE <<>>

FO_Load(ok) ==
  /\ fo' = [fo EXCEPT !.list = FarmList(orders, ok)]
  /\ UNCHANGED <<od, reservations, rp>>
  /\ UNCHANGED <<sweepVars, buyerVars>>
  /\ UNCHANGED shopVars

(* the Ship button of a row of the confirmed bucket *)
FO_OpenShip(o) ==
  /\ o \in DOMAIN fo.list /\ fo.list[o] = "confirmed"
  /\ fo' = [fo EXCEPT !.shippingId = o]
  /\ UNCHANGED <<od, reservations, rp>>
  /\ UNCHANGED <<sweepVars, buyerVars>>
  /\ UNCHANGED shopVars

FO_SetTracking(t) ==
  /\ fo.shippingId # NoOrder
  /\ fo' = [fo EXCEPT !.tracking = t]
  /\ UNCHANGED <<od, reservations, rp>>
  /\ UNCHANGED <<sweepVars, buyerVars>>
  /\ UNCHANGED shopVars

FO_SetCarrier(c) ==
  /\ fo.shippingId # NoOrder
  /\ fo' = [fo EXCEPT !.carrier = c]
  /\ UNCHANGED <<od, reservations, rp>>
  /\ UNCHANGED <<sweepVars, buyerVars>>
  /\ UNCHANGED shopVars

(* disabled={!carrier.trim() || !tracking.trim()} *)
FO_ShipEnabled(carrier, tracking) == Trim(carrier) # <<>> /\ Trim(tracking) # <<>>

(* Confirm Shipment: updateOrder(shippingId, "shipped", extra), the modal  *)
(* is reset; on success loadData runs, and `loaded` is whether its query   *)
(* of the orders succeeds                                                  *)
FO_ConfirmShipment(ok, loaded) ==
  /\ fo.shippingId # NoOrder
  /\ FO_ShipEnabled(fo.carrier, fo.tracking)
  /\ IF ok
     THEN /\ orders' = [orders EXCEPT ![fo.shippingId] =
                ApplyUpdate(@, [status |-> "shipped", carrier |-> Trim(fo.carrier),
                                tracking_number |-> Trim(fo.tracking),
                                shipped_at |-> now])]
          /\ fo' = [NewFarmOrders EXCEPT !.list = FarmList(orders', loaded),
                                         !.toast = fo.toast]
     ELSE /\ fo' = [NewFarmOrders EXCEPT !.list = fo.list, !.toast = "error"]
          /\ UNCHANGED orders
  /\ UNCHANGED <<od, reservations, rp>>
  /\ UNCHANGED <<now, products, notifications, runs, buyerVars>>
  /\ UNCHANGED shopVars

(* ---------- farm FarmOrders over the reservations table ---------- *)

(* a reservation as the buyer's purchase leaves it *)
NewReservation(created, delivery) ==
  [status |-> "pending", delivery_date |-> delivery, tracking_number |-> NullText,
   created_at |-> created, confirmed_at |-> Null, shipped_at |-> Null,
   cancelled_at |-> Null, cancellation_reason |-> NullReason]

(* `today` is the date the buckets were last computed with: they are      *)
(* memoized on the list alone                                              *)
NewReservationsPage ==
  [list |-> <<>>, today |-> Null, shippingId |-> NoOrder, tracking |-> <<>>,
   toast |-> "none"]

(* the rows loadOrders sets, as far as the buckets read them *)
ReservationList(tbl) ==
  [x \in DOMAIN tbl |->
     [status |-> tbl[x].status, delivery_date |-> tbl[x].delivery_date]]

(* today = new Date().toISOString().slice(0, 10) *)
Today(t) == Day(t)

(* loadOrders on `page`: the list is set when the query succeeds, else an  *)
(* error is shown and the list stays                                       *)
LoadedOrders(page, tbl, ok) ==
  IF ok THEN [page EXCEPT !.list = ReservationList(tbl), !.today = Today(now)]
  ELSE [page EXCEPT !.toast = "error"]

RP_Load(ok) ==
  /\ rp' = LoadedOrders(rp, reservations, ok)
  /\ UNCHANGED <<od, fo, reservations>>
  /\ UNCHANGED <<sweepVars, buyerVars>>
  /\ UNCHANGED shopVars

(* the buckets of the page *)
PendingBucket == {x \in DOMAIN rp.list : rp.list[x].status = "pending"}

ConfirmedToday ==
  {x \in DOMAIN rp.list :
     rp.list[x].status = "confirmed" /\ rp.list[x].delivery_date = rp.today}

ConfirmedLater ==
  {x \in DOMAIN rp.list :
     /\ rp.list[x].status = "confirmed"
     /\ rp.list[x].delivery_date # Null
     /\ rp.list[x].delivery_date > rp.today}

ShippingBucket == {x \in DOMAIN rp.list : rp.list[x].status = "shipped"}

DoneBucket == {x \in DOMAIN rp.list : rp.list[x].status \in {"delivered", "cancelled"}}

(* updateStatus(id, status, extra): UPDATE reservations SET status, extra; *)
(* on success loadOrders runs, and `loaded` is whether its query succeeds  *)
RP_UpdateStatus(page, id, upd, ok, loaded) ==
  IF ok
  THEN /\ reservations' = [reservations EXCEPT ![id] = ApplyUpdate(@, upd)]
       /\ rp' = LoadedOrders([page EXCEPT !.toast = "success"], reservations', loaded)
  ELSE /\ rp' = [page EXCEPT !.toast = "error"]
       /\ UNCHANGED reservations

(* the confirm button of a row of the pending bucket *)
RP_Confirm(id, ok, loaded) ==
  /\ id \in PendingBucket
  /\ RP_UpdateStatus(rp, id, [status |-> "confirmed", confirmed_at |-> now],
                     ok, loaded)
  /\ UNCHANGED <<od, fo>>
  /\ UNCHANGED <<sweepVars, buyerVars>>
  /\ UNCHANGED shopVars

(* the X button of a row of the pending bucket *)
RP_Cancel(id, ok, loaded) ==
  /\ id \in PendingBucket
  /\ RP_UpdateStatus(rp, id, [status |-> "cancelled", cancelled_at |-> now],
                     ok, loaded)
  /\ UNCHANGED <<od, fo>>
  /\ UNCHANGED <<sweepVars, buyerVars>>
  /\ UNCHANGED shopVars

(* the Ship button of a row of the Ship Today bucket *)
RP_OpenShip(id) ==
  /\ id \in ConfirmedToday
  /\ rp' = [rp EXCEPT !.shippingId = id]
  /\ UNCHANGED <<od, fo, reservations>>
  /\ UNCHANGED <<sweepVars, buyerVars>>
  /\ UNCHANGED shopVars

RP_SetTracking(t) ==
  /\ rp.shippingId # NoOrder
  /\ rp' = [rp EXCEPT !.tracking = t]
  /\ UNCHANGED <<od, fo, reservations>>
  /\ UNCHANGED <<sweepVars, buyerVars>>
  /\ UNCHANGED shopVars

(* disabled={!tracking} *)
RP_ShipEnabled(tracking) == tracking # <<>>

(* Confirm of the ship modal: updateStatus(shippingId, "shipped", extra),  *)
(* the modal is reset                                                      *)
RP_ConfirmShip(ok, loaded) ==
  /\ rp.shippingId # NoOrder
  /\ RP_ShipEnabled(rp.tracking)
  /\ RP_UpdateStatus([rp EXCEPT !.shippingId = NoOrder, !.tracking = <<>>],
                     rp.shippingId,
                     [status |-> "shipped", tracking_number |-> rp.tracking,
                      shipped_at |-> now], ok, loaded)
  /\ UNCHANGED <<od, fo>>
  /\ UNCHANGED <<sweepVars, buyerVars>>
  /\ UNCHANGED shopVars

(* ---------- buyer UserOrders: confirmReceived and submitReview -------- *)

(* a tab before its first load *)
NewSession ==
  [shipping |-> {}, selectedOrder |-> NoOrder, openReview |-> FALSE, toast |-> "none"]

(* no submitReview call in this slot *)
NoCall == [pc |-> "idle", session |-> "none", target |-> NoOrder]

(* the orders the `shipping` query of loadAll returns for the buyer *)
ShippingQuery(tbl, user) ==
  {o \in DOMAIN tbl : tbl[o].user_id = user /\ tbl[o].status = "shipped"}

(* loadAll as far as the handlers read its result: the shipped list; a     *)
(* failed query leaves data null and the list empty                        *)
Loaded(sess, ok) ==
  [sess EXCEPT !.shipping = IF ok THEN ShippingQuery(orders, Buyer) ELSE {}]

(* loadAll on mount, or any later reload of the page's lists *)
UO_Load(s, ok) ==
  /\ uo' = [uo EXCEPT ![s] = Loaded(@, ok)]
  /\ UNCHANGED <<reviews, calls>>
  /\ UNCHANGED <<sweepVars, farmVars>>
  /\ UNCHANGED shopVars

(* the update without .eq("status", "shipped") *)
ReceivedMatches_AnyStatus(tbl, o) == o \in DOMAIN tbl

(* the rows UPDATE orders ... WHERE id = o AND status = 'shipped' matches *)
ReceivedMatches(tbl, o) == tbl[o].status = "shipped"

(* confirmReceived(o) from the button of a row of the shipped list: the    *)
(* update is guarded by status = shipped; with no row returned .single()   *)
(* gives an error.  On success the review dialog opens on the returned row *)
(* and the lists are reloaded                                              *)
UO_ConfirmReceived(s, o, ok) ==
  /\ o \in uo[s].shipping
  /\ IF ok /\ ReceivedMatches(orders, o)
     THEN /\ orders' = [orders EXCEPT ![o] =
                ApplyUpdate(@, [status |-> "delivered", delivered_at |-> now])]
          /\ uo' = [uo EXCEPT ![s] =
                [shipping |-> ShippingQuery(orders', Buyer), selectedOrder |-> o,
                 openReview |-> TRUE, toast |-> "success"]]
     ELSE /\ uo' = [uo EXCEPT ![s].toast = "error"]
          /\ UNCHANGED orders
  /\ UNCHANGED <<reviews, calls>>
  /\ UNCHANGED <<now, products, notifications, runs, farmVars>>
  /\ UNCHANGED shopVars

(* onOpenChange of the review dialog: the buyer closes it *)
UO_CloseDialog(s) ==
  /\ uo[s].openReview
  /\ uo' = [uo EXCEPT ![s].openReview = FALSE]
  /\ UNCHANGED <<reviews, calls>>
  /\ UNCHANGED <<sweepVars, farmVars>>
  /\ UNCHANGED shopVars

(* the row submitReview inserts: order_id, farm_id and user_id are all     *)
(* selectedOrder.id                                                        *)
ReviewRow(o) == [order_id |-> o, farm_id |-> o, user_id |-> o]

HasReview(tbl, o) == \E rv \in BagToSet(tbl) : rv.order_id = o

(* INSERT INTO reviews without the UNIQUE constraint on order_id *)
ReviewInsertOk_NoUnique(tbl, row, ok) == ok

(* INSERT INTO reviews: order_id is UNIQUE; ok is every other reason the   *)
(* store has to accept or refuse the row                                   *)
ReviewInsertOk(tbl, row, ok) == ok /\ ~HasReview(tbl, row.order_id)

(* submitReview, lines 161-169, from the dialog's button: with an order    *)
(* selected the select of an existing review is sent                       *)
UO_SubmitReview(s, c) ==
  /\ uo[s].openReview /\ uo[s].selectedOrder # NoOrder
  /\ calls[c].pc = "idle"
  /\ calls' = [calls EXCEPT ![c] =
        [pc |-> "select", session |-> s, target |-> uo[s].selectedOrder]]
  /\ UNCHANGED <<reviews, uo>>
  /\ UNCHANGED <<sweepVars, farmVars>>
  /\ UNCHANGED shopVars

(* submitReview, lines 165-174: the select answers; a failed select leaves *)
(* `existing` null, an existing review ends the call with the error toast  *)
UO_SubmitSelect(c, ok) ==
  /\ calls[c].pc = "select"
  /\ IF ok /\ HasReview(reviews, calls[c].target)
     THEN /\ uo' = [uo EXCEPT ![calls[c].session].toast = "error"]
          /\ calls' = [calls EXCEPT ![c] = NoCall]
     ELSE /\ calls' = [calls EXCEPT ![c].pc = "insert"]
          /\ UNCHANGED uo
  /\ UNCHANGED reviews
  /\ UNCHANGED <<sweepVars, farmVars>>
  /\ UNCHANGED shopVars

(* submitReview, lines 176-188: the insert; on an error the call ends *)
UO_SubmitInsert(c, ok) ==
  /\ calls[c].pc = "insert"
  /\ IF ReviewInsertOk(reviews, ReviewRow(calls[c].target), ok)
     THEN /\ reviews' = reviews (+) SetToBag({ReviewRow(calls[c].target)})
          /\ calls' = [calls EXCEPT ![c].pc = "update"]
          /\ UNCHANGED uo
     ELSE /\ uo' = [uo EXCEPT ![calls[c].session].toast = "error"]
          /\ calls' = [calls EXCEPT ![c] = NoCall]
          /\ UNCHANGED reviews
  /\ UNCHANGED <<sweepVars, farmVars>>
  /\ UNCHANGED shopVars

(* submitReview, lines 190-203: the order is set to reviewed (the result   *)
(* of the update is not read), the dialog is reset and the lists reloaded  *)
UO_SubmitUpdate(c, ok) ==
  /\ calls[c].pc = "update"
  /\ orders' = IF ok
               THEN [orders EXCEPT ![calls[c].target] =
                       ApplyUpdate(@, [status |-> "reviewed"])]
               ELSE orders
  /\ uo' = [uo EXCEPT ![calls[c].session] =
        [shipping |-> ShippingQuery(orders', Buyer), selectedOrder |-> NoOrder,
         openReview |-> FALSE, toast |-> "success"]]
  /\ calls' = [calls EXCEPT ![c] = NoCall]
  /\ UNCHANGED reviews
  /\ UNCHANGED <<now, products, notifications, runs, farmVars>>
  /\ UNCHANGED shopVars

(* ---------- Dashboard: upgrade to farm ---------- *)

(* user_roles and farm_profiles of the logged in user (hasRole: a row with *)
(* role farm; hasProfile: a farm_profiles row), the page's role, and the   *)
(* upgrade in progress: the rows as they were at the click and what the    *)
(* handler has reported                                                    *)
NewDashboard ==
  [hasRole |-> FALSE, hasProfile |-> FALSE, role |-> "user", pc |-> "idle",
   before |-> <<FALSE, FALSE>>, result |-> "none", route |-> "/dashboard"]

(* what an awaited insert can come to: accepted, answered with an error,   *)
(* or a rejected promise                                                   *)
InsertOutcomes == {"ok", "error", "thrown"}

(* init: roles.includes("farm") ? "farm" : "user"; a failed query leaves   *)
(* the list of roles empty                                                 *)
Dash_Init(ok) ==
  /\ dash.pc = "idle"
  /\ dash' = [dash EXCEPT !.role = IF ok /\ dash.hasRole THEN "farm" ELSE "user",
                          !.route = "/dashboard", !.result = "none"]
  /\ UNCHANGED <<sweepVars, buyerVars, farmVars, pd, mp>>

(* handleUpgradeToFarm from its button, shown while role is user, up to    *)
(* the second await: the insert into user_roles, refused by                *)
(* UNIQUE(user_id, role) when the row exists; its result is not read       *)
Dash_Upgrade(outcome) ==
  /\ dash.pc = "idle" /\ dash.role = "user" /\ dash.route = "/dashboard"
  /\ dash' = IF outcome = "thrown"
             THEN [dash EXCEPT !.result = "failure",
                               !.before = <<dash.hasRole, dash.hasProfile>>]
             ELSE [dash EXCEPT !.pc = "profile", !.result = "none",
                               !.before = <<dash.hasRole, dash.hasProfile>>,
                               !.hasRole = @ \/ outcome = "ok"]
  /\ UNCHANGED <<sweepVars, buyerVars, farmVars, pd, mp>>

(* the insert into farm_profiles (user_id is UNIQUE), its result not read  *)
(* either, then setRole("farm"), the success toast and the farm dashboard  *)
Dash_UpgradeProfile(outcome) ==
  /\ dash.pc = "profile"
  /\ dash' = IF outcome = "thrown"
             THEN [dash EXCEPT !.pc = "idle", !.result = "failure"]
             ELSE [dash EXCEPT !.pc = "idle", !.result = "success", !.role = "farm",
                               !.route = "/farm/dashboard",
                               !.hasProfile = @ \/ outcome = "ok"]
  /\ UNCHANGED <<sweepVars, buyerVars, farmVars, pd, mp>>

(* ---------- ManageProducts, Market and the is_active column ---------- *)

(* products.farm_id: product 1 is the farm's, the others another farm's *)
ProductFarm(p) == IF p = 1 THEN Farm ELSE OtherFarm

(* a ManageProducts page before init *)
NewManageTab ==
  [farmId |-> NoFarm, list |-> {}, toast |-> "none", route |-> "/farm/products"]

(* products.is_active (DEFAULT TRUE), the ManageProducts pages open, and   *)
(* the products the Market page last loaded                                *)
NewManage ==
  [is_active |-> [p \in OrderIds |-> TRUE],
   tab |-> [t \in SessionIds |-> NewManageTab],
   market |-> {}]

(* the ids of the products a ManageProducts page lists *)
Listed(page) == {row.id : row \in page.list}

(* a product query with .eq("is_active", true) dropped *)
ProductQuery_Any(active, p) == p \in DOMAIN active

(* .eq("id", p).eq("is_active", true) *)
ProductQuery(active, p) == p \in DOMAIN active /\ active[p]

(* fetchProducts: .eq("farm_id", farmId).eq("is_active", true) *)
FetchProducts(active, farm) ==
  {[id |-> p, is_active |-> TRUE] :
     p \in {q \in DOMAIN active : ProductFarm(q) = farm /\ ProductQuery(active, q)}}

(* init of ManageProducts in the session of `user`: to the login without   *)
(* a session, to the dashboard without a farm profile; else farmId is set  *)
(* and the products are fetched (an error there ends in the toast)         *)
MP_Init(t, user, ok, fetched) ==
  /\ mp' = [mp EXCEPT !.tab[t] =
        IF user = "none"
        THEN [NewManageTab EXCEPT !.route = "/auth/login"]
        ELSE IF ~ok \/ ProfileOf(user) = NoFarm
        THEN [NewManageTab EXCEPT !.route = "/dashboard", !.toast = "error"]
        ELSE IF ~fetched
        THEN [NewManageTab EXCEPT !.farmId = ProfileOf(user), !.toast = "error"]
        ELSE [NewManageTab EXCEPT !.farmId = ProfileOf(user),
                                  !.list = FetchProducts(mp.is_active,
                                                         ProfileOf(user))]]
  /\ UNCHANGED <<sweepVars, buyerVars, farmVars, pd, dash>>

(* UPDATE products SET is_active = v WHERE id = p AND farm_id = farm *)
SetActive(active, p, farm, v) ==
  [q \in DOMAIN active |->
     IF q = p /\ ProductFarm(q) = farm THEN v ELSE active[q]]

(* toggleActive(product) for a listed row: the negation of the row's own   *)
(* is_active is written, and on success the row is flipped in the list     *)
MP_ToggleActive(t, row, ok) ==
  /\ row \in mp.tab[t].list
  /\ mp' = IF ok
           THEN [mp EXCEPT !.is_active = SetActive(@, row.id, mp.tab[t].farmId,
                                                  ~row.is_active),
                           !.tab[t].list = (@ \ {row})
                              \cup {[row EXCEPT !.is_active = ~row.is_active]},
                           !.tab[t].toast = "updated"]
           ELSE [mp EXCEPT !.tab[t].toast = "error"]
  /\ UNCHANGED <<sweepVars, buyerVars, farmVars, pd, dash>>

(* softDelete(productId) for a listed row, once confirm() is accepted: on  *)
(* success the row leaves the list                                         *)
MP_SoftDelete(t, row, ok) ==
  /\ row \in mp.tab[t].list
  /\ mp' = IF ok
           THEN [mp EXCEPT !.is_active = SetActive(@, row.id, mp.tab[t].farmId,
                                                  FALSE),
                           !.tab[t].list = {r \in @ : r.id # row.id},
                           !.tab[t].toast = "removed"]
           ELSE [mp EXCEPT !.tab[t].toast = "error"]
  /\ UNCHANGED <<sweepVars, buyerVars, farmVars, pd, dash>>

(* Market.loadProducts: the active products; an error leaves the list *)
Market_Load(ok) ==
  /\ mp' = [mp EXCEPT !.market =
        IF ok THEN {p \in DOMAIN mp.is_active : ProductQuery(mp.is_active, p)}
        ELSE @]
  /\ UNCHANGED <<sweepVars, buyerVars, farmVars, pd, dash>>

(* ---------- ProductDetail: the reserve dialog ---------- *)

(* no product / no call *)
NoProduct == [id |-> NoOrder, available_quantity |-> 0]
NoReserve == [p_quantity |-> 0, p_user_id |-> "none", address |-> <<>>,
              available |-> 0]

(* the stock a load can find, what can be typed into the quantity input    *)
(* (Number("") is 0; min and max of the input do not bind what is typed),  *)
(* the addresses typed, and profiles.address                               *)
StockChoices == {0, 1, 2}
QuantityInputs == {-1, 0, 1, 2, 3}
AddressInputs == {<<>>, <<" ">>, <<"A">>}
SavedAddresses == {NullText, <<>>, <<"H">>}

(* useState defaults of ProductDetail; pc is the await handleReserve is at *)
(* and rpc the reserve_product call it has sent                            *)
NewProductDetail ==
  [product |-> NoProduct, openReserve |-> FALSE, quantity |-> 1,
   addressType |-> "saved", savedAddress |-> NullText, newAddress |-> <<>>,
   submitting |-> FALSE, toast |-> "none", pc |-> "idle",
   pending |-> NoReserve, rpc |-> NoReserve, sent |-> 0]

(* at most this many reserve_product calls are followed *)
MaxReserve == 2

(* loadProduct: the active product of the route with its stock, or the     *)
(* error toast and the way back to the market                              *)
PD_LoadProduct(p, avail, ok) ==
  /\ pd.pc = "idle"
  /\ pd' = IF ok /\ ProductQuery(mp.is_active, p)
           THEN [pd EXCEPT !.product = [id |-> p, available_quantity |-> avail]]
           ELSE [NewProductDetail EXCEPT !.toast = "error", !.sent = pd.sent]
  /\ UNCHANGED <<sweepVars, buyerVars, farmVars, dash, mp>>

(* handleOpenReserve from the reserve button (disabled without stock):     *)
(* loadUserAddress, then the dialog opens unless nobody is logged in or    *)
(* the profile query fails                                                 *)
PD_OpenReserve(user, saved, ok) ==
  /\ pd.pc = "idle" /\ pd.product # NoProduct
  /\ pd.product.available_quantity > 0
  /\ pd' = IF user = "none" \/ ~ok THEN [pd EXCEPT !.toast = "error"]
           ELSE IF saved \notin {NullText, <<>>}
           THEN [pd EXCEPT !.savedAddress = saved, !.addressType = "saved",
                           !.openReserve = TRUE]
           ELSE [pd EXCEPT !.savedAddress = NullText, !.addressType = "new",
                           !.openReserve = TRUE]
  /\ UNCHANGED <<sweepVars, buyerVars, farmVars, dash, mp>>

(* onChange of the quantity input: setQuantity(Number(e.target.value)) *)
PD_SetQuantity(q) ==
  /\ pd.openReserve
  /\ pd' = [pd EXCEPT !.quantity = q]
  /\ UNCHANGED <<sweepVars, buyerVars, farmVars, dash, mp>>

(* the radio group: the saved option is disabled without a saved address *)
PD_SetAddressType(t) ==
  /\ pd.openReserve
  /\ t = "saved" => pd.savedAddress # NullText
  /\ pd' = [pd EXCEPT !.addressType = t]
  /\ UNCHANGED <<sweepVars, buyerVars, farmVars, dash, mp>>

(* onChange of the new address text area *)
PD_SetNewAddress(a) ==
  /\ pd.openReserve /\ pd.addressType = "new"
  /\ pd' = [pd EXCEPT !.newAddress = a]
  /\ UNCHANGED <<sweepVars, buyerVars, farmVars, dash, mp>>

(* the address handleReserve settles on; empty when it gives up *)
ReserveAddress(page) ==
  IF page.addressType = "saved"
  THEN (IF page.savedAddress = NullText THEN <<>> ELSE page.savedAddress)
  ELSE Trim(page.newAddress)

(* if (quantity > product.available_quantity) return *)
QuantityAccepted(q, available) == ~(q > available)

(* handleReserve from the dialog's button, up to the await of getUser *)
PD_Reserve ==
  /\ pd.pc = "idle" /\ pd.openReserve /\ ~pd.submitting
  /\ pd.product # NoProduct
  /\ pd.sent < MaxReserve
  /\ pd' = IF ~QuantityAccepted(pd.quantity, pd.product.available_quantity)
              \/ ReserveAddress(pd) = <<>>
           THEN [pd EXCEPT !.toast = "error"]
           ELSE [pd EXCEPT !.submitting = TRUE, !.pc = "auth",
                           !.pending = [p_quantity |-> pd.quantity,
                                        p_user_id |-> "none",
                                        address |-> ReserveAddress(pd),
                                        available |-> pd.product.available_quantity]]
  /\ UNCHANGED <<sweepVars, buyerVars, farmVars, dash, mp>>

(* getUser answers: without a user the handler ends, else reserve_product  *)
(* is called with the quantity and address of the click                    *)
PD_ReserveAuth(user) ==
  /\ pd.pc = "auth"
  /\ pd' = IF user = "none"
           THEN [pd EXCEPT !.toast = "error", !.submitting = FALSE, !.pc = "idle",
                           !.pending = NoReserve]
           ELSE [pd EXCEPT !.pc = "rpc", !.sent = @ + 1,
                           !.rpc = [pd.pending EXCEPT !.p_user_id = user]]
  /\ UNCHANGED <<sweepVars, buyerVars, farmVars, dash, mp>>

(* reserve_product answers: on success the dialog closes and the product   *)
(* is loaded again; submitting is cleared either way                       *)
PD_ReserveDone(ok, avail, loaded) ==
  /\ pd.pc = "rpc"
  /\ pd' = IF ~ok
           THEN [pd EXCEPT !.toast = "error", !.submitting = FALSE, !.pc = "idle",
                           !.pending = NoReserve]
           ELSE IF loaded /\ ProductQuery(mp.is_active, pd.product.id)
           THEN [pd EXCEPT !.toast = "success", !.submitting = FALSE, !.pc = "idle",
                           !.pending = NoReserve, !.openReserve = FALSE,
                           !.product = [id |-> pd.product.id,
                                        available_quantity |-> avail]]
           ELSE [NewProductDetail EXCEPT !.toast = "error", !.sent = pd.sent,
                                         !.rpc = pd.rpc]
  /\ UNCHANGED <<sweepVars, buyerVars, farmVars, dash, mp>>

(* ---------- the sweeps alone, one invocation after another ---------- *)

(* creation times around the 48 hour limit as the clock starts: over it,   *)
(* and exactly on it                                                       *)
CreatedChoices == {T0 - StaleHours - 1, T0 - StaleHours}

(* harvest dates around the 7 day limit as the clock starts *)
HarvestChoices == {Day(T0) - HarvestDays - 1, Day(T0) - HarvestDays}

(* rows the lifecycle produces: a new order, one the farm confirmed, one   *)
(* the farm shipped                                                        *)
ConfirmedOrder(o, created) ==
  ApplyUpdate(NewOrder(o, created), UpdatesFor("confirmed", <<>>, created + 1))

ShippedOrder(o, created) ==
  ApplyUpdate(ConfirmedOrder(o, created), UpdatesFor("shipped", <<"T">>, created + 2))

SweepRows(o) ==
  UNION { {NewOrder(o, c), ConfirmedOrder(o, c), ShippedOrder(o, c)} :
            c \in CreatedChoices }

StatusRank(st) ==
  CASE st = "pending" -> 0 [] st = "confirmed" -> 1 [] st = "shipped" -> 2
    [] st = "delivered" -> 3 [] st = "reviewed" -> 4 [] OTHER -> 5

(* order ids are interchangeable: of the tables that differ only by a      *)
(* renaming of the ids, the one with its rows in ascending order is taken  *)
RowKey(row, prod) ==
  (StatusRank(row.status) * 10000) + (row.created_at * 10) + prod.harvest_date

Ascending(tbl, prods) ==
  \A o \in OrderIds : o + 1 \in OrderIds =>
    RowKey(tbl[o], prods[tbl[o].product_id])
      <= RowKey(tbl[o + 1], prods[tbl[o + 1].product_id])

InitSweep ==
  /\ now = T0
  /\ orders \in {f \in [OrderIds -> UNION {SweepRows(o) : o \in OrderIds}] :
                    \A o \in OrderIds : f[o] \in SweepRows(o)}
  /\ products \in [OrderIds -> [harvest_date : HarvestChoices]]
  /\ Ascending(orders, products)
  /\ notifications = EmptyBag
  /\ runs = [r \in RunIds |-> IdleRun]
  /\ reviews = EmptyBag
  /\ uo = [s \in SessionIds |-> NewSession]
  /\ calls = [c \in CallIds |-> NoCall]
  /\ od = NewDetail
  /\ fo = NewFarmOrders
  /\ reservations = [x \in OrderIds |-> NewReservation(T0 - 1, Day(T0))]
  /\ rp = NewReservationsPage
  /\ pd = NewProductDetail
  /\ dash = NewDashboard
  /\ mp = NewManage

NextSweep ==
  \/ Tick
  \/ \E ok \in BOOLEAN : StaleFetch(Scheduled, ok)
  \/ \E ok \in BOOLEAN : \E row \in runs[Scheduled].todo : StaleRow(Scheduled, row, ok)
  \/ \E ok \in BOOLEAN : HarvestFetch(Scheduled, ok)
  \/ \E ok \in BOOLEAN : \E row \in runs[Scheduled].todo : HarvestRow(Scheduled, row, ok)
  \/ Respond(Scheduled)

SpecSweep == InitSweep /\ [][NextSweep]_vars

(* the two handlers called with any method *)
NextRequests ==
  \/ Tick
  \/ \E m \in Methods : \E ok \in BOOLEAN : StaleRequest(Scheduled, m, ok)
  \/ \E ok \in BOOLEAN : \E row \in runs[Scheduled].todo : StaleRow(Scheduled, row, ok)
  \/ \E m \in Methods : \E ok \in BOOLEAN : HarvestRequest(Scheduled, m, ok)
  \/ \E ok \in BOOLEAN : \E row \in runs[Scheduled].todo : HarvestRow(Scheduled, row, ok)
  \/ Respond(Scheduled)

SpecRequests == InitSweep /\ [][NextRequests]_vars

(* ---------- two invocations in progress at once ---------- *)

(* a slow run plus a new scheduled trigger: each slot takes one request    *)
(* and nothing orders the steps of the two invocations                     *)
NextOverlap ==
  \/ Tick
  \/ \E r \in RunIds : \E ok \in BOOLEAN : StaleFetch(r, ok)
  \/ \E r \in RunIds : \E ok \in BOOLEAN :
        \E row \in runs[r].todo : StaleRow(r, row, ok)
  \/ \E r \in RunIds : \E ok \in BOOLEAN : HarvestFetch(r, ok)
  \/ \E r \in RunIds : \E ok \in BOOLEAN :
        \E row \in runs[r].todo : HarvestRow(r, row, ok)

SpecOverlap == InitSweep /\ [][NextOverlap]_vars

(* ---------- the two sweeps on their schedules, for ever ---------- *)

(* check-farm-confirm is invoked in slot Scheduled and auto-cancel-orders  *)
(* in slot Overlapping: the two functions are scheduled independently      *)
StaleSteps ==
  \/ \E ok \in BOOLEAN : StaleFetch(Scheduled, ok)
  \/ \E ok \in BOOLEAN : \E row \in runs[Scheduled].todo : StaleRow(Scheduled, row, ok)
  \/ Respond(Scheduled)

HarvestSteps ==
  \/ \E ok \in BOOLEAN : HarvestFetch(Overlapping, ok)
  \/ \E ok \in BOOLEAN : \E row \in runs[Overlapping].todo : HarvestRow(Overlapping, row, ok)
  \/ Respond(Overlapping)

NextLive ==
  \/ Tick
  \/ StaleSteps
  \/ HarvestSteps

(* the scheduler keeps invoking each function, and an invocation runs to   *)
(* its response: the handler is straight-line code with a finite loop.     *)
(* Whether a select or an update succeeds is left open                     *)
LiveFairness ==
  /\ WF_vars(StaleSteps)
  /\ WF_vars(HarvestSteps)

SpecLive == InitSweep /\ [][NextLive]_vars /\ LiveFairness

(* ---------- SpecRerun: a sweep, and the same sweep invoked again as soon  *)
(* ---------- as the first has run, with the clock unchanged        ------ *)

(* the first invocation of a sweep of this kind has run to its response *)
FirstRan(kind) == runs[Scheduled].pc = "done" /\ runs[Scheduled].kind = kind

NextRerun ==
  \/ \E ok \in BOOLEAN : StaleFetch(Scheduled, ok)
  \/ \E ok \in BOOLEAN : \E row \in runs[Scheduled].todo : StaleRow(Scheduled, row, ok)
  \/ \E ok \in BOOLEAN : HarvestFetch(Scheduled, ok)
  \/ \E ok \in BOOLEAN : \E row \in runs[Scheduled].todo : HarvestRow(Scheduled, row, ok)
  \/ \E ok \in BOOLEAN : FirstRan("stale") /\ StaleFetch(Overlapping, ok)
  \/ \E ok \in BOOLEAN : \E row \in runs[Overlapping].todo : StaleRow(Overlapping, row, ok)
  \/ \E ok \in BOOLEAN : FirstRan("harvest") /\ HarvestFetch(Overlapping, ok)
  \/ \E ok \in BOOLEAN : \E row \in runs[Overlapping].todo : HarvestRow(Overlapping, row, ok)

SpecRerun == InitSweep /\ [][NextRerun]_vars

(* ---------- the buyer's page alone ---------- *)

(* every order has been shipped by the farm *)
InitReview ==
  /\ now = T0
  /\ orders = [o \in OrderIds |-> ShippedOrder(o, T0 - StaleHours)]
  /\ products = [o \in OrderIds |-> [harvest_date |-> Day(T0)]]
  /\ notifications = EmptyBag
  /\ runs = [r \in RunIds |-> IdleRun]
  /\ reviews = EmptyBag
  /\ uo = [s \in SessionIds |-> NewSession]
  /\ calls = [c \in CallIds |-> NoCall]
  /\ od = NewDetail
  /\ fo = NewFarmOrders
  /\ reservations = [x \in OrderIds |-> NewReservation(T0 - 1, Day(T0))]
  /\ rp = NewReservationsPage
  /\ pd = NewProductDetail
  /\ dash = NewDashboard
  /\ mp = NewManage

NextReview ==
  \/ \E s \in SessionIds, ok \in BOOLEAN : UO_Load(s, ok)
  \/ \E s \in SessionIds, o \in OrderIds, ok \in BOOLEAN : UO_ConfirmReceived(s, o, ok)
  \/ \E s \in SessionIds : UO_CloseDialog(s)
  \/ \E s \in SessionIds, c \in CallIds : UO_SubmitReview(s, c)
  \/ \E c \in CallIds, ok \in BOOLEAN : UO_SubmitSelect(c, ok)
  \/ \E c \in CallIds, ok \in BOOLEAN : UO_SubmitInsert(c, ok)
  \/ \E c \in CallIds, ok \in BOOLEAN : UO_SubmitUpdate(c, ok)

SpecReview == InitReview /\ [][NextReview]_vars

(* ---------- SpecLife: the sweeps, the farm's order page, the buyer ------ *)

(* the first order is pending and due for both sweeps, the others have    *)
(* been shipped                                                            *)
InitLife ==
  /\ now = T0
  /\ orders = [o \in OrderIds |-> IF o = 1 THEN NewOrder(o, T0 - StaleHours - 1)
                                  ELSE ShippedOrder(o, T0 - StaleHours - 1)]
  /\ products = [o \in OrderIds |-> [harvest_date |-> Day(T0) - HarvestDays - 1]]
  /\ notifications = EmptyBag
  /\ runs = [r \in RunIds |-> IdleRun]
  /\ reviews = EmptyBag
  /\ uo = [s \in SessionIds |-> NewSession]
  /\ calls = [c \in CallIds |-> NoCall]
  /\ od = NewDetail
  /\ fo = NewFarmOrders
  /\ reservations = [x \in OrderIds |-> NewReservation(T0 - 1, Day(T0))]
  /\ rp = NewReservationsPage
  /\ pd = NewProductDetail
  /\ dash = NewDashboard
  /\ mp = NewManage

NextLife ==
  \/ \E ok \in BOOLEAN : StaleFetch(Scheduled, ok)
  \/ \E ok \in BOOLEAN : \E row \in runs[Scheduled].todo : StaleRow(Scheduled, row, ok)
  \/ \E ok \in BOOLEAN : HarvestFetch(Scheduled, ok)
  \/ \E ok \in BOOLEAN : \E row \in runs[Scheduled].todo : HarvestRow(Scheduled, row, ok)
  \/ Respond(Scheduled)
  \/ \E o \in OrderIds, ok \in BOOLEAN : OD_Load(o, ok)
  \/ OD_SetTracking(<<" ", "T">>)
  \/ \E st \in {"confirmed", "shipped", "delivered"} : OD_UpdateStatus(st)
  \/ \E ok \in BOOLEAN : OD_Updated(ok)
  \/ \E ok \in BOOLEAN : UO_Load("tab1", ok)
  \/ \E o \in OrderIds, ok \in BOOLEAN : UO_ConfirmReceived("tab1", o, ok)
  \/ UO_CloseDialog("tab1")
  \/ UO_SubmitReview("tab1", "call1")
  \/ \E ok \in BOOLEAN : UO_SubmitSelect("call1", ok)
  \/ \E ok \in BOOLEAN : UO_SubmitInsert("call1", ok)
  \/ \E ok \in BOOLEAN : UO_SubmitUpdate("call1", ok)

SpecLife == InitLife /\ [][NextLife]_vars

(* ---------- SpecShip: the farm ships orders from its two order pages ---- *)

(* every order has been confirmed *)
InitShip ==
  /\ now = T0
  /\ orders = [o \in OrderIds |-> ConfirmedOrder(o, T0 - 1)]
  /\ products = [o \in OrderIds |-> [harvest_date |-> Day(T0)]]
  /\ notifications = EmptyBag
  /\ runs = [r \in RunIds |-> IdleRun]
  /\ reviews = EmptyBag
  /\ uo = [s \in SessionIds |-> NewSession]
  /\ calls = [c \in CallIds |-> NoCall]
  /\ od = NewDetail
  /\ fo = NewFarmOrders
  /\ reservations = [x \in OrderIds |->
        ApplyUpdate(NewReservation(T0 - 1, Day(T0)),
                    [status |-> "confirmed", confirmed_at |-> T0])]
  /\ rp = NewReservationsPage
  /\ pd = NewProductDetail
  /\ dash = NewDashboard
  /\ mp = NewManage

NextShip ==
  \/ \E o \in OrderIds, ok \in BOOLEAN : OD_Load(o, ok)
  \/ \E t \in TrackingInputs : OD_SetTracking(t)
  \/ \E st \in {"confirmed", "shipped", "delivered"} : OD_UpdateStatus(st)
  \/ \E ok \in BOOLEAN : OD_Updated(ok)
  \/ \E ok \in BOOLEAN : FO_Load(ok)
  \/ \E o \in OrderIds : FO_OpenShip(o)
  \/ \E t \in TrackingInputs : FO_SetTracking(t)
  \/ \E c \in CarrierInputs : FO_SetCarrier(c)
  \/ \E ok \in BOOLEAN, loaded \in BOOLEAN : FO_ConfirmShipment(ok, loaded)

SpecShip == InitShip /\ [][NextShip]_vars

(* ---------- the ProductDetail page and its reserve dialog ---------- *)

NextReserve ==
  \/ \E a \in StockChoices, ok \in BOOLEAN : PD_LoadProduct(1, a, ok)
  \/ \E u \in {"none", Buyer}, sa \in SavedAddresses, ok \in BOOLEAN :
        PD_OpenReserve(u, sa, ok)
  \/ \E q \in QuantityInputs : PD_SetQuantity(q)
  \/ \E t \in {"saved", "new"} : PD_SetAddressType(t)
  \/ \E a \in AddressInputs : PD_SetNewAddress(a)
  \/ PD_Reserve
  \/ \E u \in {"none", Buyer} : PD_ReserveAuth(u)
  \/ \E ok \in BOOLEAN, a \in StockChoices, loaded \in BOOLEAN :
        PD_ReserveDone(ok, a, loaded)

SpecReserve == InitReview /\ [][NextReserve]_vars

(* ---------- a user becomes a farm and manages its products ---------- *)

NextUpgrade ==
  \/ \E ok \in BOOLEAN : Dash_Init(ok)
  \/ \E out \in InsertOutcomes : Dash_Upgrade(out)
  \/ \E out \in InsertOutcomes : Dash_UpgradeProfile(out)
  \/ \E u \in Visitors, ok \in BOOLEAN, f \in BOOLEAN : MP_Init("tab1", u, ok, f)
  \/ \E ok \in BOOLEAN : Market_Load(ok)

SpecUpgrade == InitReview /\ [][NextUpgrade]_vars

(* ---------- two ManageProducts pages, the market and a product page ---- *)

NextManage ==
  \/ \E t \in SessionIds, u \in Visitors, ok \in BOOLEAN, f \in BOOLEAN :
        MP_Init(t, u, ok, f)
  \/ \E t \in SessionIds, ok \in BOOLEAN :
        \E row \in mp.tab[t].list : MP_ToggleActive(t, row, ok)
  \/ \E t \in SessionIds, ok \in BOOLEAN :
        \E row \in mp.tab[t].list : MP_SoftDelete(t, row, ok)
  \/ \E ok \in BOOLEAN : Market_Load(ok)
  \/ \E p \in OrderIds, ok \in BOOLEAN : PD_LoadProduct(p, 1, ok)

SpecManage == InitReview /\ [][NextManage]_vars

(* ---------- the OrderDetail page opened by any visitor ---------- *)

(* a pending order of the farm and one of another farm *)
InitLoad ==
  /\ now = T0
  /\ orders = [o \in OrderIds |->
        IF o = 1 THEN NewOrder(o, T0 - 1)
        ELSE [NewOrder(o, T0 - 1) EXCEPT !.farm_id = OtherFarm]]
  /\ products = [o \in OrderIds |-> [harvest_date |-> Day(T0)]]
  /\ notifications = EmptyBag
  /\ runs = [r \in RunIds |-> IdleRun]
  /\ reviews = EmptyBag
  /\ uo = [s \in SessionIds |-> NewSession]
  /\ calls = [c \in CallIds |-> NoCall]
  /\ od = NewDetail
  /\ fo = NewFarmOrders
  /\ reservations = [x \in OrderIds |-> NewReservation(T0 - 1, Day(T0))]
  /\ rp = NewReservationsPage
  /\ pd = NewProductDetail
  /\ dash = NewDashboard
  /\ mp = NewManage

NextLoad ==
  \/ Tick
  \/ \E v \in Visitors, o \in OrderIds, ok \in BOOLEAN : OD_LoadOrder(v, o, ok)
  \/ \E t \in TrackingInputs : OD_SetTracking(t)
  \/ \E st \in {"confirmed", "shipped", "delivered"} : OD_UpdateStatus(st)
  \/ \E ok \in BOOLEAN : OD_Updated(ok)

SpecLoad == InitLoad /\ [][NextLoad]_vars

(* ---------- SpecWriters: every writer of an order's status but the ------ *)
(* ---------- review                                                ------ *)

DeliveredOrder(o, created) ==
  ApplyUpdate(ShippedOrder(o, created), UpdatesFor("delivered", <<>>, created + 3))

(* the first order is pending and due for both sweeps, the others have     *)
(* been delivered                                                          *)
InitWriters ==
  /\ now = T0
  /\ orders = [o \in OrderIds |-> IF o = 1 THEN NewOrder(o, T0 - StaleHours - 1)
                                  ELSE DeliveredOrder(o, T0 - StaleHours - 1)]
  /\ products = [o \in OrderIds |-> [harvest_date |-> Day(T0) - HarvestDays - 1]]
  /\ notifications = EmptyBag
  /\ runs = [r \in RunIds |-> IdleRun]
  /\ reviews = EmptyBag
  /\ uo = [s \in SessionIds |-> NewSession]
  /\ calls = [c \in CallIds |-> NoCall]
  /\ od = NewDetail
  /\ fo = NewFarmOrders
  /\ reservations = [x \in OrderIds |-> NewReservation(T0 - 1, Day(T0))]
  /\ rp = NewReservationsPage
  /\ pd = NewProductDetail
  /\ dash = NewDashboard
  /\ mp = NewManage

NextWriters ==
  \/ \E ok \in BOOLEAN : StaleFetch(Scheduled, ok)
  \/ \E ok \in BOOLEAN : \E row \in runs[Scheduled].todo : StaleRow(Scheduled, row, ok)
  \/ \E ok \in BOOLEAN : HarvestFetch(Scheduled, ok)
  \/ \E ok \in BOOLEAN : \E row \in runs[Scheduled].todo : HarvestRow(Scheduled, row, ok)
  \/ Respond(Scheduled)
  \/ \E o \in OrderIds, ok \in BOOLEAN : OD_Load(o, ok)
  \/ OD_SetTracking(<<" ", "T">>)
  \/ \E st \in {"confirmed", "shipped", "delivered"} : OD_UpdateStatus(st)
  \/ \E ok \in BOOLEAN : OD_Updated(ok)
  \/ \E ok \in BOOLEAN : FO_Load(ok)
  \/ \E o \in OrderIds : FO_OpenShip(o)
  \/ FO_SetTracking(<<" ", "T">>)
  \/ FO_SetCarrier(<<"K">>)
  \/ \E ok \in BOOLEAN, loaded \in BOOLEAN : FO_ConfirmShipment(ok, loaded)
  \/ \E ok \in BOOLEAN : UO_Load("tab1", ok)
  \/ \E o \in OrderIds, ok \in BOOLEAN : UO_ConfirmReceived("tab1", o, ok)

SpecWriters == InitWriters /\ [][NextWriters]_vars

(* ---------- SpecReservations: the farm page over reservations ----------- *)

(* delivery dates a reservation may carry *)
DeliveryChoices == {Day(T0), Day(T0) + 1}

InitReservations ==
  /\ now = T0
  /\ orders = [o \in OrderIds |-> NewOrder(o, T0 - 1)]
  /\ products = [o \in OrderIds |-> [harvest_date |-> Day(T0)]]
  /\ notifications = EmptyBag
  /\ runs = [r \in RunIds |-> IdleRun]
  /\ reviews = EmptyBag
  /\ uo = [s \in SessionIds |-> NewSession]
  /\ calls = [c \in CallIds |-> NoCall]
  /\ od = NewDetail
  /\ fo = NewFarmOrders
  /\ reservations \in [OrderIds -> {NewReservation(T0 - 1, d) : d \in DeliveryChoices}]
  /\ rp = NewReservationsPage
  /\ pd = NewProductDetail
  /\ dash = NewDashboard
  /\ mp = NewManage

NextReservations ==
  \/ Tick
  \/ \E ok \in BOOLEAN : RP_Load(ok)
  \/ \E id \in OrderIds, ok \in BOOLEAN, loaded \in BOOLEAN : RP_Confirm(id, ok, loaded)
  \/ \E id \in OrderIds, ok \in BOOLEAN, loaded \in BOOLEAN : RP_Cancel(id, ok, loaded)
  \/ \E id \in OrderIds : RP_OpenShip(id)
  \/ \E t \in TrackingInputs : RP_SetTracking(t)
  \/ \E ok \in BOOLEAN, loaded \in BOOLEAN : RP_ConfirmShip(ok, loaded)

SpecReservations == InitReservations /\ [][NextReservations]_vars

(* ---------- what the sweeps are to do, in the words of the claims ------- *)

(* pending, and created strictly more than 48 hours before t *)
StaleDue(row, t) ==
  row.status = "pending" /\ t - row.created_at > StaleHours

(* pending or confirmed, and harvested more than 7 days before the date of t *)
HarvestDue(row, prods, t) ==
  /\ row.status \in {"pending", "confirmed"}
  /\ Day(t) - prods[row.product_id].harvest_date > HarvestDays

(* order o met the predicate of invocation r's sweep when r selected *)
DueAtSelect(r, o) ==
  IF runs[r].kind = "stale" THEN StaleDue(runs[r].pre[o], runs[r].at)
  ELSE HarvestDue(runs[r].pre[o], products, runs[r].at)

(* the notifications invocation r inserted for order o, with multiplicity *)
InsertedBy(r, o) ==
  LET S == {n \in BagToSet(runs[r].inserted) : n.related_order_id = o}
  IN [n \in S |-> runs[r].inserted[n]]

BuyerNotice(o) ==
  [user_id |-> orders[o].user_id, type |-> "order_cancelled",
   related_order_id |-> o]

FarmNotice(o) ==
  [user_id |-> orders[o].farm_id, type |-> "confirmation_missed",
   related_order_id |-> o]

(* invocation r inserted exactly the buyer's and the farm's notification   *)
(* for order o                                                             *)
TwoNotices(r, o) ==
  /\ InsertedBy(r, o) = SetToBag({BuyerNotice(o), FarmNotice(o)})
  /\ InsertedBy(r, o) \sqsubseteq notifications

(* invocation r inserted exactly one notification for order o, the buyer's *)
OneNotice(r, o) ==
  /\ InsertedBy(r, o) = SetToBag({BuyerNotice(o)})
  /\ InsertedBy(r, o) \sqsubseteq notifications
  /\ \A n \in BagToSet(InsertedBy(r, o)) : n.user_id # orders[o].farm_id

CancelledWithTwo(r, o) == orders[o].status = "cancelled" /\ TwoNotices(r, o)

CancelledWithOne(r, o) == orders[o].status = "cancelled" /\ OneNotice(r, o)

(* the step in which invocation r's update of order o is applied leaves o  *)
(* cancelled, with the time of the step and a reason                       *)
UpdateCancels(r, o) ==
  o \in runs'[r].updated \ runs[r].updated
  => /\ orders'[o].status = "cancelled"
     /\ orders'[o].cancelled_at = now
     /\ orders'[o].cancellation_reason \in {StaleReason, HarvestReason}

Finished(r, kind) == runs[r].pc = "done" /\ runs[r].kind = kind

C3_SweepFrame ==
  [][\A r \in RunIds : runs'[r] # runs[r] /\ runs'[r].pc # "idle" =>
       \A o \in OrderIds : ~DueAtSelect(r, o)' =>
         /\ orders'[o] = orders[o]
         /\ \A n \in BagToSet(notifications') :
              n.related_order_id = o =>
                CopiesIn(n, notifications') = CopiesIn(n, notifications)]_vars

C3_Witness ==
  \E r \in RunIds : \E o, p \in OrderIds :
    /\ runs[r].pc = "done" /\ p \in runs[r].updated
    /\ ~DueAtSelect(r, o)
    /\ orders[o] = runs[r].pre[o]
    /\ orders[o].status \in {"pending", "confirmed"}

(* the rows of the reviews table for order o *)
ReviewCount(tbl, o) ==
  LET S == {rv \in BagToSet(tbl) : rv.order_id = o}
  IN BagCardinality([rv \in S |-> tbl[rv]])

(* C4: the reviews table never holds more than one row per order_id, and a *)
(* step of a submitReview call (the answer to its select, or its insert)   *)
(* taken when the order already has a review inserts nothing, leaves the   *)
(* orders unchanged and never leads on to the update of the order; when    *)
(* that step ends the call, the call's tab shows the error toast.          *)
C4_OneReviewPerOrder ==
  /\ [](\A o \in OrderIds : ReviewCount(reviews, o) <= 1)
  /\ [][\A c \in CallIds :
         /\ calls[c].pc \in {"select", "insert"} /\ calls'[c] # calls[c]
         /\ HasReview(reviews, calls[c].target)
         => /\ reviews' = reviews /\ orders' = orders
            /\ calls'[c].pc \in {"insert", "idle"}
            /\ calls[c].pc = "insert" => calls'[c].pc = "idle"
            /\ calls'[c].pc = "idle" => uo'[calls[c].session].toast = "error"]_vars

(* a second submitReview call has been refused for an order that has its   *)
(* review                                                                  *)
C4_Witness ==
  \E s \in SessionIds : \E o \in OrderIds :
    /\ ReviewCount(reviews, o) = 1
    /\ orders[o].status = "delivered"
    /\ uo[s].selectedOrder = o /\ uo[s].toast = "error"
    /\ \E c \in CallIds : calls[c].target = o /\ calls[c].pc = "update"

(* ---------- shipping without a tracking number ---------- *)

(* blank: empty, or white space only *)
Blank(text) == Trim(text) = <<>>

(* with a blank tracking number the order page puts no shipment in flight, *)
(* and the ship modal of the orders list is not submitted: only its        *)
(* submission closes it                                                    *)
OrderPagesReject ==
  /\ od.order # NoRow /\ ~od.updating /\ Blank(od.trackingNumber)
     => ~(od'.updating /\ od'.req.status = "shipped")
  /\ fo.shippingId # NoOrder /\ Blank(fo.tracking)
     => fo'.shippingId # NoOrder

(* with a blank tracking number the ship modal of the reservations page is *)
(* not submitted, and its reservation stays as it is                       *)
ReservationsPageRejects ==
  rp.shippingId # NoOrder /\ Blank(rp.tracking)
  => /\ rp'.shippingId # NoOrder
     /\ reservations'[rp.shippingId] = reservations[rp.shippingId]

(* C5: in each of the three places where the farm ships, with an empty or  *)
(* white-space-only tracking number entered no update is sent and the      *)
(* order or reservation stays as it is.                                    *)
C5_BlankTrackingRejected ==
  [][OrderPagesReject /\ ReservationsPageRejects]_vars

(* ---------- the lifecycle of an order ---------- *)

(* pending -> confirmed -> shipped -> delivered -> reviewed, and           *)
(* pending/confirmed -> cancelled                                          *)
Edges ==
  {<<"pending", "confirmed">>, <<"confirmed", "shipped">>,
   <<"shipped", "delivered">>, <<"delivered", "reviewed">>,
   <<"pending", "cancelled">>, <<"confirmed", "cancelled">>}

(* C6: whatever the interleaving of the farm, the buyer and the sweeps,    *)
(* every change of an order's status follows an edge of the lifecycle.     *)
C6_StatusFollowsEdges ==
  [][\A o \in OrderIds :
       orders'[o].status # orders[o].status
       => <<orders[o].status, orders'[o].status>> \in Edges]_vars

(* C7: cancelled is terminal: no step changes the status of a cancelled    *)
(* order.                                                                  *)
C7_CancelledIsTerminal ==
  [][\A o \in OrderIds :
       orders[o].status = "cancelled" => orders'[o].status = "cancelled"]_vars

(* the statuses a sweep of this kind may cancel *)
Cancellable(kind) ==
  IF kind = "stale" THEN {"pending"} ELSE {"pending", "confirmed"}

(* C8: when a sweep's update of a row is applied the stored status is      *)
(* pending (stale-pending sweep) or pending/confirmed (post-harvest        *)
(* sweep), whatever happened since the select; a shipped, delivered or     *)
(* reviewed order is never cancelled.                                      *)
C8_CancelledOnlyFromOpen ==
  [][\A o \in OrderIds :
       /\ \A r \in RunIds :
            o \in runs'[r].updated \ runs[r].updated
            => orders[o].status \in Cancellable(runs[r].kind)
       /\ orders[o].status \in {"shipped", "delivered", "reviewed"}
          => orders'[o].status # "cancelled"]_vars

(* ---------- what a cancelled and a shipped row carry ---------- *)

(* C9: every cancelled order and every cancelled reservation has a         *)
(* cancelled_at and a non-empty cancellation reason.                       *)
C9_CancelledHasTimeAndReason ==
  /\ \A o \in OrderIds :
       orders[o].status = "cancelled"
       => orders[o].cancelled_at # Null
          /\ orders[o].cancellation_reason \notin {NullReason, ""}
  /\ \A x \in DOMAIN reservations :
       reservations[x].status = "cancelled"
       => reservations[x].cancelled_at # Null
          /\ reservations[x].cancellation_reason \notin {NullReason, ""}

(* a tracking number with at least one character that is not white space *)
HasTracking(text) == text # NullText /\ ~Blank(text)

(* C10: every shipped order and every shipped reservation has a tracking   *)
(* number that is not null and not blank.                                  *)
C10_ShippedHasTracking ==
  /\ \A o \in OrderIds :
       orders[o].status = "shipped" => HasTracking(orders[o].tracking_number)
  /\ \A x \in DOMAIN reservations :
       reservations[x].status = "shipped"
       => HasTracking(reservations[x].tracking_number)

(* ---------- the timestamp of a transition ---------- *)

(* the timestamp column of the status a row is in; the row's creation time *)
(* for the statuses that have none                                         *)
StampOf(row) ==
  CASE row.status = "confirmed" -> row.confirmed_at
    [] row.status = "shipped" -> row.shipped_at
    [] row.status = "delivered" -> row.delivered_at
    [] row.status = "cancelled" -> row.cancelled_at
    [] OTHER -> row.created_at

(* C11: every step that changes an order's status to confirmed, shipped,   *)
(* delivered or cancelled leaves the timestamp of the status entered       *)
(* non-null, whichever operation takes the step.                           *)
C11_TransitionSetsTimestamp ==
  [][\A o \in OrderIds :
       orders'[o].status # orders[o].status => StampOf(orders'[o]) # Null]_vars

(* an order the farm confirmed, then shipped from the orders list, and the *)
(* buyer confirmed as received, while a sweep cancelled nothing            *)
C11_Witness ==
  \E o \in OrderIds :
    /\ orders[o].status = "delivered" /\ orders[o].carrier = <<"K">>
    /\ orders[o].delivered_at = now /\ orders[o].shipped_at = now
    /\ orders[o].confirmed_at = now /\ orders[o].cancelled_at = Null
    /\ uo["tab1"].selectedOrder = o

(* ---------- running a sweep twice ---------- *)

(* a step of the second invocation *)
SecondSteps == runs'[Overlapping] # runs[Overlapping]

Notified(r, o) ==
  IF runs[r].kind = "stale" THEN TwoNotices(r, o) ELSE OneNotice(r, o)

StillDue(r, o) ==
  IF runs[r].kind = "stale" THEN StaleFilter(orders[o], StaleCutoff(now))
  ELSE HarvestFilter(orders[o], products, HarvestCutoff(now))

(* C14: the pass of a sweep whose update of an order fails changes no      *)
(* order and inserts no notification; the run never inserts a notification *)
(* for that order; the order still meets the sweep's filter afterwards,    *)
(* and the next run of the sweep whose select succeeds selects it.         *)
C14_FailedRowStaysEligible ==
  /\ [][\A r \in RunIds : \A o \in runs'[r].failed \ runs[r].failed :
         orders' = orders /\ notifications' = notifications]_vars
  /\ [](\A o \in runs[Scheduled].failed :
         /\ InsertedBy(Scheduled, o) = EmptyBag
         /\ runs[Overlapping].pc = "idle"
            => orders[o] = runs[Scheduled].pre[o] /\ StillDue(Scheduled, o))
  /\ [][runs[Overlapping].pc = "idle" /\ runs'[Overlapping].pc # "idle"
        /\ runs'[Overlapping].resp.status # 500
        => \A o \in runs[Scheduled].failed :
             \E row \in runs'[Overlapping].todo : row.id = o]_vars

(* the update of an order failed in the first run, and the second run has  *)
(* selected the order and cancelled it                                     *)
C14_Witness ==
  \E o \in OrderIds :
    /\ o \in runs[Scheduled].failed /\ runs[Scheduled].pc = "done"
    /\ InsertedBy(Scheduled, o) = EmptyBag
    /\ o \in runs[Overlapping].updated
    /\ orders[o].status = "cancelled"

(* ---------- what a sweep answers ---------- *)

(* C15: the number in a sweep's success message is the number of orders    *)
(* the run cancelled; an order whose update failed is not counted.         *)
C15_CountIsCancelled ==
  \A r \in RunIds :
    runs[r].pc = "done" /\ runs[r].resp.success
    => runs[r].resp.count = Cardinality(runs[r].updated)

(* C16: when the select of a sweep fails the run ends at once: no order   *)
(* has been updated, no notification inserted, and the answer is status    *)
(* 500 with the body { error } holding the message of the select's error.  *)
C16_FetchFailureAborts ==
  \A r \in RunIds :
    runs[r].pc = "done" /\ runs[r].resp.status = 500
    => /\ runs[r].updated = {} /\ runs[r].failed = {}
       /\ runs[r].inserted = EmptyBag
       /\ orders = runs[r].pre
       /\ runs[r].resp = ErrorResponse(FetchMessage)

(* C17: a request with method OPTIONS is answered at once, with no select, *)
(* no order update and no notification insert; a request with any other    *)
(* method runs the sweep and is answered with { success: true, message }   *)
(* and status 200 or with { error } and status 500, nothing else.          *)
C17_PreflightAndShapes ==
  /\ [](\A r \in RunIds :
         runs[r].method = "OPTIONS"
         => /\ runs[r].pc = "done" /\ runs[r].resp = PreflightResponse
            /\ runs[r].at = Null /\ runs[r].todo = {} /\ runs[r].found = 0
            /\ runs[r].updated = {} /\ runs[r].failed = {}
            /\ runs[r].inserted = EmptyBag)
  /\ [][\A r \in RunIds :
          runs'[r] # runs[r] /\ runs'[r].method = "OPTIONS"
          => orders' = orders /\ notifications' = notifications]_vars
  /\ [](\A r \in RunIds :
         runs[r].pc = "done" /\ runs[r].method \in Methods \ {"OPTIONS"}
         => /\ runs[r].at # Null
            /\ \/ /\ runs[r].resp.body = "success" /\ runs[r].resp.status = 200
                  /\ runs[r].resp.success
               \/ runs[r].resp.body = "error" /\ runs[r].resp.status = 500)

(* a preflight answered while an order is due for the handler's sweep and  *)
(* still pending                                                           *)
C17_Witness ==
  /\ runs[Scheduled].pc = "done" /\ runs[Scheduled].method = "OPTIONS"
  /\ runs[Scheduled].kind = "stale"
  /\ \E o \in OrderIds : StaleDue(orders[o], now)

(* a step in which a submitReview call reports success for order o *)
ReviewSucceeds(o) ==
  \E c \in CallIds :
    /\ calls[c].pc = "update" /\ calls[c].target = o
    /\ calls'[c].pc = "idle"
    /\ uo'[calls[c].session].toast = "success"

(* C18: once submitReview has reported success for an order, the order is  *)
(* reviewed, in that state and in every later one; and an order is         *)
(* reviewed only if the reviews table holds a row for it.                  *)
C18_ReviewedAfterSuccess ==
  /\ [][\A o \in OrderIds :
          ReviewSucceeds(o) => orders'[o].status = "reviewed"]_vars
  /\ [][\A o \in OrderIds :
          orders[o].status = "reviewed" => orders'[o].status = "reviewed"]_vars
  /\ [](\A o \in OrderIds :
          orders[o].status = "reviewed" => HasReview(reviews, o))

(* the update of order o by either sweep succeeds *)
RowCancelled(o) ==
  \/ \E row \in runs[Scheduled].todo : row.id = o /\ StaleRow(Scheduled, row, TRUE)
  \/ \E row \in runs[Overlapping].todo : row.id = o /\ HarvestRow(Overlapping, row, TRUE)

(* per-row update failures are transient: an update of order o that is     *)
(* attempted again and again does not fail for ever                        *)
RowFailuresTransient == \A o \in OrderIds : SF_vars(RowCancelled(o))

(* the select of each sweep does not fail for ever *)
FetchFailuresTransient ==
  /\ SF_vars(StaleFetch(Scheduled, TRUE))
  /\ SF_vars(HarvestFetch(Overlapping, TRUE))

(* order o meets the predicate of one of the sweeps now *)
Due(o) ==
  StaleDue(orders[o], now) \/ HarvestDue(orders[o], products, now)

DetailSteps ==
  {<<"pending", "confirmed">>, <<"confirmed", "shipped">>,
   <<"shipped", "delivered">>}

(* C20: the OrderDetail page requests only the immediate successor of the  *)
(* status it displays: confirmed from pending, shipped from confirmed,     *)
(* delivered from shipped, and nothing while it displays delivered,        *)
(* cancelled or reviewed.                                                  *)
C20_RequestsSuccessorOnly ==
  /\ [][od'.req # NoRow /\ od'.req # od.req
        => <<od.order.status, od'.req.status>> \in DetailSteps]_vars
  /\ [](od.updating
        => /\ od.req # NoRow
           /\ <<od.order.status, od.req.status>> \in DetailSteps)
  /\ [](od.order.status \in {"delivered", "cancelled", "reviewed"}
        => ~od.updating /\ od.req = NoRow)
  /\ [][\A o \in OrderIds :
         od.updating /\ ~od'.updating /\ orders'[o] # orders[o]
         => /\ o = od.id
            /\ <<od.order.status, orders'[o].status>> \in DetailSteps]_vars

(* Mark as Delivered has been pressed on a page that displays shipped      *)
(* while the stored order has moved on                                     *)
C20_Witness ==
  /\ od.updating /\ od.order.status = "shipped" /\ od.req.status = "delivered"
  /\ orders[od.id].status # "shipped"

(* the two invocations are of the same sweep *)
SameSweep ==
  runs[Scheduled].kind = runs[Overlapping].kind /\ runs[Scheduled].kind # "none"

PageStep(s) == uo'[s] # uo[s] /\ calls' = calls

(* C22: confirmReceived changes an order only from shipped, to delivered   *)
(* with delivered_at set; when the stored status is not shipped (or the    *)
(* store refuses) it changes no order, shows the error and leaves the      *)
(* review dialog as it was; the dialog opens only on the order it has just *)
(* set to delivered.                                                       *)
C22_ConfirmReceivedGuarded ==
  /\ [][\A s \in SessionIds : \A o \in OrderIds :
         PageStep(s) /\ orders'[o] # orders[o]
         => /\ orders[o].status = "shipped"
            /\ orders'[o] =
                 ApplyUpdate(orders[o], [status |-> "delivered", delivered_at |-> now])
            /\ uo'[s].toast = "success"]_vars
  /\ [][\A s \in SessionIds :
         PageStep(s) /\ uo'[s].toast = "error" /\ uo[s].toast # "error"
         => /\ orders' = orders
            /\ uo'[s].openReview = uo[s].openReview
            /\ uo'[s].selectedOrder = uo[s].selectedOrder]_vars
  /\ [][\A s \in SessionIds :
         uo'[s].openReview /\ ~uo[s].openReview
         => /\ uo'[s].selectedOrder # NoOrder
            /\ orders[uo'[s].selectedOrder].status = "shipped"
            /\ orders'[uo'[s].selectedOrder].status = "delivered"]_vars

(* the button of a stale shipped list was pressed for an order another tab *)
(* had already confirmed: error shown, no dialog                           *)
C22_Witness ==
  \E o \in OrderIds :
    /\ o \in uo["tab1"].shipping /\ orders[o].status = "delivered"
    /\ uo["tab1"].toast = "error" /\ ~uo["tab1"].openReview
    /\ uo["tab1"].selectedOrder = NoOrder
    /\ uo["tab2"].selectedOrder = o /\ uo["tab2"].openReview

(* the orders invocation r has inserted a notification for *)
NotifiedOrders(r) ==
  {n.related_order_id : n \in BagToSet(runs[r].inserted)}

(* C23: a notification a sweep has inserted names an order the same        *)
(* invocation selected and had updated to cancelled when it inserted; no   *)
(* notification is inserted for an order whose update failed.              *)
C23_NotifiesOnlyCancelled ==
  /\ [](\A r \in RunIds :
         /\ NotifiedOrders(r) \subseteq runs[r].updated
         /\ NotifiedOrders(r) \cap runs[r].failed = {}
         /\ \A o \in NotifiedOrders(r) : DueAtSelect(r, o))
  /\ [][notifications' # notifications
        => \E r \in RunIds :
             notifications' (-) notifications = runs'[r].inserted (-) runs[r].inserted]_vars
  /\ [][\A r \in RunIds : \A o \in OrderIds :
         InsertedBy(r, o)' # InsertedBy(r, o)
         => /\ \E row \in runs[r].todo : row.id = o
            /\ o \in runs'[r].updated \ runs[r].updated
            /\ orders'[o].status = "cancelled"]_vars

(* of two orders an invocation selected, the one whose update failed has   *)
(* no notification and the other, cancelled, has its own                   *)
C23_Witness ==
  \E o, p \in OrderIds :
    /\ runs[Overlapping].pc = "done" /\ runs[Overlapping].kind = "harvest"
    /\ runs[Overlapping].failed = {p} /\ runs[Overlapping].updated = {o}
    /\ NotifiedOrders(Overlapping) = {o}
    /\ orders[p].status # "cancelled"

(* C24: updateStatus ends with updating false on each of its paths; after  *)
(* a store error or a missing tracking number the order held by the page   *)
(* is what it was and nothing was written; after a success the order held  *)
(* is the previous one overlaid with the fields written to the store.      *)
C24_UpdateStatusExits ==
  /\ [][od.updating /\ [od' EXCEPT !.trackingNumber = od.trackingNumber] # od
        => /\ ~od'.updating /\ od'.req = NoRow
           /\ \/ /\ od'.toast = "success"
                 /\ od'.order = ApplyUpdate(od.order, od.req)
                 /\ orders' = [orders EXCEPT ![od.id] = ApplyUpdate(@, od.req)]
              \/ /\ od'.toast = "error"
                 /\ od'.order = od.order
                 /\ orders' = orders]_vars
  /\ [][/\ ~od.updating /\ ~od'.updating
         /\ od'.toast = "error" /\ od.toast # "error" /\ od'.order # NoRow
        => /\ od.order.status = "confirmed" /\ Trim(od.trackingNumber) = <<>>
           /\ od'.order = od.order /\ od'.req = NoRow
           /\ orders' = orders]_vars
  /\ [](od.updating => od.req # NoRow)

(* Mark as Shipped has succeeded: the page holds the shipped order with    *)
(* the trimmed tracking number and the time written                        *)
C24_Witness ==
  /\ od.order # NoRow /\ ~od.updating /\ od.toast = "success"
  /\ od.order.status = "shipped" /\ od.order.tracking_number = <<"T">>
  /\ od.order.shipped_at = now /\ od.trackingNumber = <<" ", "T">>
  /\ orders[od.id].tracking_number = <<"T">>

(* C25: the page holds an order only when the order's farm_id is the id   *)
(* of the farm profile of the session it was loaded in; without a          *)
(* session, without a farm profile or for an order of another farm no      *)
(* order is held, the page has navigated away, and no update is issued.    *)
C25_OwnFarmOnly ==
  /\ [](od.order # NoRow
        => /\ od.route = "detail" /\ od.session # "none"
           /\ ProfileOf(od.session) # NoFarm
           /\ orders[od.id].farm_id = ProfileOf(od.session))
  /\ [](od.route # "detail"
        => od.order = NoRow /\ ~od.updating /\ od.req = NoRow)
  /\ [][od'.order = NoRow /\ od' # od => od'.route # "detail"]_vars
  /\ [][\A o \in OrderIds :
         orders'[o] # orders[o] /\ now' = now
         => orders[o].farm_id = ProfileOf(od.session)]_vars

(* the user of the other farm holds that farm's order, updated from the    *)
(* page, and the order of the first farm is untouched                      *)
C25_Witness ==
  /\ od.session = OtherFarmUser /\ od.order # NoRow /\ od.id = 2
  /\ orders[2].status = "confirmed" /\ od.order.status = "confirmed"
  /\ orders[1].status = "pending"

(* C26: reserve_product is called only for a logged in user, with a       *)
(* non-empty delivery address, and with a quantity q with                  *)
(* 1 <= q <= the available_quantity the page had loaded; submitting is     *)
(* false again whenever handleReserve has ended.                           *)
C26_ReserveGuarded ==
  /\ [][pd'.sent # pd.sent
        => /\ pd'.rpc.p_user_id # "none"
           /\ pd'.rpc.address # <<>>
           /\ 1 <= pd'.rpc.p_quantity
           /\ pd'.rpc.p_quantity <= pd'.rpc.available
           /\ pd'.rpc.available = pd.product.available_quantity]_vars
  /\ [](pd.pc = "idle" => ~pd.submitting)

(* C27: when handleUpgradeToFarm has ended, either it reports success,    *)
(* the page's role is farm and the user has both the farm role row and a   *)
(* farm profile row, or it reports failure, the role is not farm and no    *)
(* row was added.                                                          *)
C27_UpgradeAllOrNothing ==
  dash.pc = "idle" /\ dash.result # "none"
  => \/ /\ dash.result = "success" /\ dash.role = "farm"
        /\ dash.hasRole /\ dash.hasProfile
     \/ /\ dash.result = "failure" /\ dash.role = "user"
        /\ <<dash.hasRole, dash.hasProfile>> = dash.before

(* the five buckets of the reservations page *)
Buckets ==
  <<PendingBucket, ConfirmedToday, ConfirmedLater, ShippingBucket, DoneBucket>>

(* C28: every confirmed reservation the page lists is in exactly one of    *)
(* Ship Today and Upcoming, and the five buckets are pairwise disjoint.    *)
C28_ConfirmedInOneBucket ==
  /\ \A x \in DOMAIN rp.list :
       rp.list[x].status = "confirmed"
       => (x \in ConfirmedToday) # (x \in ConfirmedLater)
  /\ \A i, j \in 1..5 : i # j => Buckets[i] \cap Buckets[j] = {}

(* a step in which softDelete succeeds for product p on page t *)
SoftDeleted(t, p) ==
  /\ p \in Listed(mp.tab[t]) /\ p \notin Listed(mp'.tab[t])
  /\ mp'.tab[t].farmId = mp.tab[t].farmId /\ mp.tab[t].farmId # NoFarm
  /\ mp'.tab[t].toast = "removed"

(* C29: when softDelete has succeeded for a product, the product is not    *)
(* active and not in the page's list; a product that is not active is      *)
(* returned by no load of the ManageProducts list, of the market or of     *)
(* the product page; and is_active of a product changes only from a page   *)
(* whose farm id is the product's farm_id.                                 *)
C29_SoftDeleteHides ==
  /\ [][\A t \in SessionIds : \A p \in OrderIds :
         SoftDeleted(t, p) => ~mp'.is_active[p] /\ p \notin Listed(mp'.tab[t])]_vars
  /\ [][\A p \in OrderIds :
         ~mp'.is_active[p]
         => /\ mp'.market # mp.market => p \notin mp'.market
            /\ pd'.product # pd.product => pd'.product.id # p
            /\ \A t \in SessionIds :
                 p \in Listed(mp'.tab[t]) => p \in Listed(mp.tab[t])]_vars
  /\ [][\A p \in OrderIds :
         mp'.is_active[p] # mp.is_active[p]
         => \E t \in SessionIds :
              /\ mp.tab[t].farmId = ProductFarm(p)
              /\ p \in Listed(mp.tab[t])]_vars

(* the farm's product was soft deleted on one page and the market and the  *)
(* other farm's page, loaded since, do not have it                         *)
C29_Witness ==
  /\ ~mp.is_active[1] /\ mp.tab["tab1"].toast = "removed"
  /\ mp.tab["tab1"].farmId = Farm /\ Listed(mp.tab["tab1"]) = {}
  /\ mp.tab["tab2"].farmId = OtherFarm /\ Listed(mp.tab["tab2"]) = {2}
  /\ mp.market = {2}
  /\ pd.product = NoProduct /\ pd.toast = "error"

====
